---- MODULE Spec2Model ----
(***************************************************************************)
(* StableMultiDiffusion3Pipeline (src/model/pipeline_stablemultidiffusion_3 *)
(* .py): the schedule, the mask preprocessing, the generation call and its  *)
(* step loop, as a state machine.                                           *)
(*                                                                          *)
(* Tensors are modelled on a one-dimensional canvas of NPix latent pixels   *)
(* with one channel.  Real numbers are fixed-point integers in units of     *)
(* 1/Q (Q stands for 1.0).  The denoiser, the text encoder, the autoencoder *)
(* and the captioner are external: each is a fixed function of its inputs.  *)
(***************************************************************************)
EXTENDS Integers, Sequences, FiniteSets, TLC

\* ---------------------------------------------------------------- bounds
\* Fixed-point scale: the integer that stands for 1.0.
Q == 100
\* Width of the latent canvas, in pixels.
NPix == 2
\* Largest num_inference_steps a generation call passes explicitly.
MaxK == 2
\* Largest number of prompts, negative prompts and masks of a call.
MaxRegions == 2

\* ------------------------------------------------------ program constants
\* default_num_inference_steps, set in __init__.
DefaultNumInferenceSteps == 4
\* The length of the reference timeline __init__ selects for t_index_list.
InitNumInferenceSteps == 50
\* default_bootstrap_steps.
DefaultBootstrapSteps == 1
\* default_guidance_scale (0.0).
DefaultGuidanceScale == 0
\* pipe.vae_scale_factor of the Stable Diffusion 3 pipeline.
VaeScaleFactor == 8
\* The default height and width of a call, and of the white image of __init__.
DefaultSize == 1024
\* default t_index_list.
DefaultTList == <<0, 4, 12, 25, 37>>
\* default_preprocess_mask_cover_alpha (0.3), default_mask_strength (1.0),
\* default_prompt_strength (1.0), default_boostrap_mix_steps (1.0),
\* default_bootstrap_leak_sensitivity (0.2), in units of 1/Q.
DefaultCoverAlpha == (3 * Q) \div 10
DefaultMaskStrength == Q
DefaultPromptStrength == Q
DefaultBootstrapMixSteps == Q
DefaultLeakSensitivity == (2 * Q) \div 10

Pix == 1..NPix
None == "None"
\* None, where the argument is a number otherwise.
NoneNum == 0 - 1

\* ------------------------------------------------------------ arithmetic
Mul(a, b) == (a * b) \div Q
Min(a, b) == IF a < b THEN a ELSE b
Max(a, b) == IF a > b THEN a ELSE b
Clip(x, lo, hi) == Min(hi, Max(lo, x))

RECURSIVE SumSeq(_)
SumSeq(s) == IF s = <<>> THEN 0 ELSE Head(s) + SumSeq(Tail(s))

\* The sum over the pixels of a canvas-sized tensor.
RECURSIVE SumTo(_, _)
SumTo(f, n) == IF n = 0 THEN 0 ELSE f[n] + SumTo(f, n - 1)
SumPix(f) == SumTo(f, NPix)

Zeros == [p \in Pix |-> 0]
Ones == [p \in Pix |-> Q]

\* ------------------------------------------------- the external scheduler
\* scheduler.set_timesteps(n) lays out a reference timeline of n entries;
\* entry k has sigma (n - k) / n and timestep 1000 * sigma, both strictly
\* decreasing in k.  Indexing outside the timeline raises IndexError.
RefSigma(n, k) == (Q * (n - k)) \div n
RefTimestep(n, k) == (1000 * (n - k)) \div n
InTimeline(n, tl) == \A j \in 1..Len(tl) : tl[j] >= -n /\ tl[j] < n
\* torch indexing: a negative index counts from the end.
Wrap(n, k) == IF k < 0 THEN n + k ELSE k

\* list(range(k))
Range(k) == [j \in 1..k |-> j - 1]

\* ---------------------------------------------------- schedule (fields)
\* The five fields prepare_flashflowmatch_schedule assigns, as one record.
\* Integer square root (rounded down).
Isqrt(x) == CHOOSE r \in 0..(2 * Q) : r * r <= x /\ x < (r + 1) * (r + 1)
\* sigma * (sigma^2 + 1)^(-1/2), in units of 1/Q.
NoiseLv(s) == (s * Q) \div Isqrt(s * s + Q * Q)

ScheduleFields(tl, n) ==
    LET ts == [j \in 1..Len(tl) |-> RefTimestep(n, Wrap(n, tl[j]))]
        sg == [j \in 1..Len(tl) |-> RefSigma(n, Wrap(n, tl[j]))]
        lv == [j \in 1..Len(tl) |-> NoiseLv(sg[j])]
    IN  [timesteps |-> ts,
         sigmas |-> sg,
         sigmas_next |-> Tail(sg \o <<0>>),
         noise_lvs |-> lv,
         next_noise_lvs |-> Tail(lv) \o <<0>>]

\* t_index_list = None.  (An empty list is not among the inputs.)
NoList == <<>>

prepare_flashflowmatch_schedule_partial(sch, t_index_list, num_inference_steps) ==
    LET tl == IF t_index_list = NoList THEN DefaultTList ELSE t_index_list
        n == IF num_inference_steps = NoneNum THEN DefaultNumInferenceSteps
             ELSE num_inference_steps
    IN  IF InTimeline(n, tl)
        THEN [err |-> None, n |-> n,
              sch |-> [sch EXCEPT !.timesteps = ScheduleFields(tl, n).timesteps,
                                  !.sigmas = ScheduleFields(tl, n).sigmas]]
        ELSE [err |-> "IndexError", n |-> n, sch |-> sch]

\* prepare_flashflowmatch_schedule on the fields sch: the fields afterwards,
\* the length the scheduler's reference timeline is set to, and the error
\* raised.  self.scheduler.timesteps[...] (line 289) is the first statement
\* that indexes by t_index_list; it raises before any field is assigned.
prepare_flashflowmatch_schedule(sch, t_index_list, num_inference_steps) ==
    LET tl == IF t_index_list = NoList THEN DefaultTList ELSE t_index_list
        n == IF num_inference_steps = NoneNum THEN DefaultNumInferenceSteps
             ELSE num_inference_steps
    IN  IF InTimeline(n, tl)
        THEN [err |-> None, n |-> n, sch |-> ScheduleFields(tl, n)]
        ELSE [err |-> "IndexError", n |-> n, sch |-> sch]

\* ------------------------------------------------------ scheduler_step
scheduler_step(sigmas, noise_pred, idx, latent) ==
    [p \in DOMAIN latent |-> latent[p] - Mul(noise_pred[p], sigmas[idx + 1])]

\* --------------------------------------------------- scheduler_add_noise
\* noise = None.
NoNoise == <<>>

\* A variant whose range test admits idx = len(sigmas).
scheduler_add_noise_idxoff(sigmas, latent, noise, idx, randn) ==
    IF idx <= Len(sigmas) /\ idx >= 0
    THEN [p \in DOMAIN latent |->
            Mul(Q - sigmas[Min(Len(sigmas), idx + 1)], latent[p])
            + Mul(sigmas[Min(Len(sigmas), idx + 1)],
                  (IF noise = NoNoise THEN randn ELSE noise)[p])]
    ELSE latent

\* idx is the zero-based index of the code; sequences here start at 1.
\* randn is what torch.randn_like(latent) returns if it is called.
scheduler_add_noise(sigmas, latent, noise, idx, randn) ==
    IF idx < Len(sigmas) /\ idx >= 0
    THEN [p \in DOMAIN latent |->
            Mul(Q - sigmas[idx + 1], latent[p])
            + Mul(sigmas[idx + 1], (IF noise = NoNoise THEN randn ELSE noise)[p])]
    ELSE latent

\* ------------------------------------------------------------ process_mask
\* Masks are given at the resolution of the canvas (constant over each
\* vae_scale_factor block), so both resizes pick the block's value.  A mask
\* is a function from Pix to 0..Q; an image mask in boolean mode holds 0 or Q
\* (Q where the image is dark).  std is 0 for every region, so the
\* (std > 0).any() branch, the only use of gaussian_lowpass, is not taken.
MaskTypes == {"discrete", "semi-continuous", "continuous"}

\* masks[i + 1:].sum(dim=0) > 0 at pixel p.
CoveredAbove(masks, i, p) == \E j \in (i + 1)..Len(masks) : masks[j][p] > 0

CoverDecayOff(masks, alpha) == masks

CoverDecay(masks, alpha) ==
    IF alpha > 0
    THEN [i \in 1..Len(masks) |->
            IF i < Len(masks)
            THEN [p \in Pix |-> IF CoveredAbove(masks, i, p)
                                THEN Mul(masks[i][p], alpha)
                                ELSE masks[i][p]]
            ELSE masks[i]]
    ELSE masks

\* ((m - next) / (lv - next)).clip_(0, 1); a zero denominator gives +-inf,
\* which clips to 1 or 0.
Ramp(m, lv, nx) ==
    IF lv = nx THEN (IF m > nx THEN Q ELSE 0)
    ELSE Clip(((m - nx) * Q) \div (lv - nx), 0, Q)

Bool(b) == IF b THEN Q ELSE 0

\* The mask value of one pixel at step t (1-based) of T.  A mode outside
\* MaskTypes matches no branch of the if/elif chain: the value is returned
\* as it is.
Quantize(mtype, m, t, T, lvs, nxt) ==
    IF mtype = "discrete" THEN Bool(m > lvs[t])
    ELSE IF mtype = "semi-continuous"
         THEN (IF t < T THEN Bool(m > lvs[t]) ELSE Ramp(m, lvs[T], nxt[T]))
    ELSE IF mtype = "continuous" THEN Ramp(m, lvs[t], nxt[t])
    ELSE m

\* Returns masks[r][t][p] (t = 1..T), masks_blurred[r][p] and std.
process_mask(mtype, sch, masks, strength, alpha) ==
    LET T == Len(sch.noise_lvs)
        decayed == CoverDecay(masks, alpha)
        scaled == [r \in 1..Len(masks) |->
                     [p \in Pix |-> Mul(decayed[r][p], strength)]]
    IN  [masks |-> [r \in 1..Len(masks) |-> [t \in 1..T |-> [p \in Pix |->
                      Quantize(mtype, scaled[r][p], t, T,
                               sch.noise_lvs, sch.next_noise_lvs)]]],
         masks_blurred |-> decayed,
         std |-> [r \in 1..Len(masks) |-> 0]]

\* -------------------------------------------------- external collaborators
\* Prompts are numbered: region prompt k is k, negative prompt k is 10 + k.
BgPromptId == 20
BgNegPromptId == 21
WhitePromptId == 22
CaptionId == 23
Prompts(n) == [k \in 1..n |-> k]
NegPrompts(n) == [k \in 1..n |-> 10 + k]
Reverse(s) == [k \in 1..Len(s) |-> s[Len(s) + 1 - k]]

\* pipe.encode_prompt: one embedding per prompt.
Emb(id) == 10 * id + 3
EncodePrompts(ids) == [k \in 1..Len(ids) |-> Emb(ids[k])]

\* The empty prompt ''.
EmptyPromptId == 24

\* A variant that never asks the captioner.
get_text_prompts_nocall(i2t, image) ==
    [calls |-> 0, prompt |-> EmptyPromptId]

\* get_text_prompts: the caption of an image and the number of calls of
\* the captioner made for it; '' without a call if no captioner is loaded.
get_text_prompts(i2t, image) ==
    IF i2t THEN [calls |-> 1, prompt |-> CaptionId]
    ELSE [calls |-> 0, prompt |-> EmptyPromptId]

\* A background image supplied by the caller, and the all-ones image.
BgImage == [p \in Pix |-> (Q \div 5) * p]

\* encode_imgs: vae.config.scaling_factor * vae.encode(2 * imgs - 1).
encode_imgs(imgs) == [p \in Pix |-> (3 * (2 * imgs[p] - Q)) \div 2 + p]

\* get_white_background on the cache white = [has, h, w] (the image size
\* the cached latent was encoded from; its own shape is that divided by
\* vae_scale_factor): whether the encoder is called, the cache afterwards
\* and the shape of the latent returned.
get_white_background(white, height, width) ==
    IF ~white.has
       \/ white.h \div VaeScaleFactor < height
       \/ white.w \div VaeScaleFactor < width
    THEN [encoded |-> TRUE,
          cache |-> [has |-> TRUE, h |-> height, w |-> width],
          shape |-> << height \div VaeScaleFactor, width \div VaeScaleFactor >>]
    ELSE [encoded |-> FALSE,
          cache |-> white,
          shape |-> << Min(white.h \div VaeScaleFactor, height \div VaeScaleFactor),
                       Min(white.w \div VaeScaleFactor, width \div VaeScaleFactor) >>]

\* vae.decode(latent / scaling_factor + shift_factor).
VaeDecode(lat) == [p \in Pix |-> (2 * lat[p]) \div 3 + 7]

\* torch.randn: draw number k of the generator started from a seed.
Randn(seed, k) ==
    [p \in Pix |-> (((seed * 7 + k * 3 + p * 11) % 5) - 2) * (Q \div 2)]

\* self.transformer on one batch entry: the prediction at offset x of a tile
\* whose latent sums to sum, at timestep t, under the embedding e.
Denoise(sum, x, t, e) ==
    (((sum + 15 * x + 3 * e + t) % 7) - 3) * (Q \div 10)

\* tensor.repeat(n, 1, ...): the batch tiled n times.
Repeat(s, n) == [k \in 1..(Len(s) * n) |-> s[((k - 1) % Len(s)) + 1]]

\* Broadcasting of two batch sizes; 0 stands for a shape error.
Bcast(a, b) == IF a = b THEN a ELSE IF a = 1 THEN b ELSE IF b = 1 THEN a ELSE 0
At(batch, k) == IF Len(batch) = 1 THEN batch[1] ELSE batch[k]

\* torch.lerp(be, fe, s) on batches of scalar embeddings, be of size 1.
Lerp(be, fe, s) ==
    [k \in 1..Bcast(Len(fe), Len(s)) |->
        be[1] + Mul(At(s, k), At(fe, k) - be[1])]

\* ------------------------------------------------------------ call inputs
Left == [p \in Pix |-> IF p <= NPix \div 2 THEN Q ELSE 0]
Right == [p \in Pix |-> IF p <= NPix \div 2 THEN 0 ELSE Q]

\* The mask lists a call passes for n regions: all on the left half, the
\* halves in turn, and the left half under a last mask that covers all.
MaskSeqs(n) ==
    { [r \in 1..n |-> Left],
      [r \in 1..n |-> IF r % 2 = 1 THEN Left ELSE Right],
      [r \in 1..n |-> IF r = n THEN Ones ELSE Left] }

MaskArgs ==
    { [kind |-> "none", seq |-> <<>>], [kind |-> "list", seq |-> <<>>] }
    \cup { [kind |-> k, seq |-> m] :
             k \in {"list", "tensor"},
             m \in UNION { MaskSeqs(n) : n \in 1..MaxRegions } }

\* guidance_scale (None, or 2.0) with guidance_rescale (0.7 by default, or 0).
GuidanceArgs ==
    { [gs |-> NoneNum, resc |-> (7 * Q) \div 10],
      [gs |-> 2 * Q, resc |-> (7 * Q) \div 10],
      [gs |-> 2 * Q, resc |-> 0] }

OutputTypes == {"pil", "latent", "np"}
\* The seeds of the random generator a call may start from.
Seeds == 1..2

\* The calls of the model.  Every call passes mask_stds = 0, suffix = None
\* and a canvas no larger than tile_size, and leaves the strengths, the cover
\* alpha, the mix steps and the leak sensitivity at their defaults.
\* CountArgs varies the numbers of prompts,
\* negative prompts and masks, the kind of masks, the background and the
\* guidance, with everything else at its default; RunArgs varies the
\* schedule, the bootstrap, the output and the seed over calls whose counts
\* match.
CountArgs ==
    [ np : 0..MaxRegions,
      nn : 1..MaxRegions,
      masks : MaskArgs,
      bg : {None, "image"},
      bgp : {None, "given"},
      nis : {NoneNum},
      guidance : GuidanceArgs,
      boot : {NoneNum},
      mix : {NoneNum},
      alpha : {NoneNum},
      rev : {FALSE},
      output_type : {"pil"},
      do_blend : {TRUE},
      seed : {1} ]

\* The output arguments and seeds of a run: every seed with the defaults,
\* and the first seed with each other output type and with do_blend off.
OutputArgs ==
    { [output_type |-> "pil", do_blend |-> TRUE, seed |-> sd] : sd \in Seeds }
    \cup { [output_type |-> ot, do_blend |-> TRUE, seed |-> 1] : ot \in OutputTypes }
    \cup { [output_type |-> "pil", do_blend |-> FALSE, seed |-> 1] }

RunArgs ==
    UNION { { [np |-> n,
               nn |-> 1,
               masks |-> [kind |-> "list", seq |-> m],
               bg |-> bg,
               bgp |-> None,
               nis |-> nis,
               guidance |-> [gs |-> NoneNum, resc |-> (7 * Q) \div 10],
               boot |-> boot,
               mix |-> NoneNum,
               alpha |-> NoneNum,
               rev |-> FALSE,
               output_type |-> o.output_type,
               do_blend |-> o.do_blend,
               seed |-> o.seed] :
                 m \in MaskSeqs(n), bg \in {None, "image"},
                 nis \in {NoneNum} \cup 1..MaxK, boot \in {NoneNum, 0},
                 o \in OutputArgs } : n \in 1..MaxRegions }

\* boostrap_mix_steps = 2.3.
MixSteps23 == (23 * Q) \div 10

\* The calls that vary the bootstrap: one region on the default schedule of
\* five steps, bootstrap_steps from 0 to the number of steps, and
\* boostrap_mix_steps None (1.0), 0, 2.3 and 5.
BootArgs ==
    [ np : {1},
      nn : {1},
      masks : { [kind |-> "list", seq |-> m] : m \in MaskSeqs(1) },
      bg : {None, "image"},
      bgp : {None},
      nis : {NoneNum},
      guidance : { [gs |-> NoneNum, resc |-> (7 * Q) \div 10] },
      boot : {NoneNum, 0, 3, 4, Len(DefaultTList)},
      mix : {NoneNum, 0, MixSteps23, 5 * Q},
      alpha : {NoneNum},
      rev : {FALSE},
      output_type : {"pil", "latent"},
      do_blend : {TRUE},
      seed : {1} ]

\* The calls of a permutation test: regions listed one way and the other,
\* with the cover decay switched off by preprocess_mask_cover_alpha = 0.
PermArgs ==
    UNION { [ np : {n},
              nn : {1, n},
              masks : { [kind |-> "tensor", seq |-> m] : m \in MaskSeqs(n) },
              bg : {None, "image"},
              bgp : {None},
              nis : {NoneNum, MaxK},
              guidance : { [gs |-> NoneNum, resc |-> (7 * Q) \div 10],
                           [gs |-> 2 * Q, resc |-> 0] },
              boot : {NoneNum, 0},
              mix : {NoneNum},
              alpha : {0},
              rev : {FALSE},
              output_type : {"pil"},
              do_blend : {TRUE},
              seed : {1} ] : n \in 1..MaxRegions }

\* The prompts of a call in the order they are listed (rev: last region
\* first), and the call with its regions listed in the reverse order.
PromptIds(a) == IF a.rev THEN Reverse(Prompts(a.np)) ELSE Prompts(a.np)
NegPromptIds(a) == IF a.rev THEN Reverse(NegPrompts(a.nn)) ELSE NegPrompts(a.nn)
Reversed(a) ==
    [a EXCEPT !.rev = ~a.rev, !.masks = [kind |-> a.masks.kind,
                                         seq |-> Reverse(a.masks.seq)]]

\* --------------------------------------------- __call__: before the loop
Err(kind, x, y) == [kind |-> kind, counts |-> <<x, y>>]
NoErr == [kind |-> None, counts |-> <<>>]

\* prompts is None or empty (line 761).
NoPrompts(a) == a.np = 0
\* masks is None or an empty list (line 765).
NoMasks(a) == a.masks.kind = "none" \/ (a.masks.kind = "list" /\ a.masks.seq = <<>>)

\* The two assertions on the counts (lines 799-802), and the errors they raise.
ValidationErrors == {"AssertionError:prompts", "AssertionError:negative_prompts"}
PromptCountOkAny(num_prompts, num_masks) == TRUE
PromptCountOk(num_prompts, num_masks) == num_prompts \in {num_masks, 1}
NegCountOk(num_nprompts, num_prompts) == num_nprompts \in {num_prompts, 1}

\* The schedule the call runs on (lines 771-772).
CallSchedule(a, sch) ==
    IF a.nis # NoneNum THEN ScheduleFields(Range(a.nis), a.nis) ELSE sch

\* bg_masks = (1 - fg_masks.sum(dim=0)).clip_(0, 1), as bg[t][p].
BgMasks(fg, T) ==
    [t \in 1..T |-> [p \in Pix |->
        Clip(Q - SumSeq([r \in 1..Len(fg) |-> fg[r][t][p]]), 0, Q)]]

\* has_background = bg_masks.sum() > 0
HasBackground(bg_masks) == \E t \in 1..Len(bg_masks) : SumPix(bg_masks[t]) > 0

\* What a call that raises before the loop leaves behind.
Failed(sch, err, stages) ==
    [err |-> err, did |-> stages, sch |-> sch, latent |-> Zeros, rng |-> 0,
     captions |-> 0, loop |-> [has_background |-> FALSE]]

\* The background block (lines 831-853): the masks, prompts and background
\* the rest of the call works with.
Background(a, i2t, pm, bg_masks, has_bg0) ==
    LET asRegion == has_bg0 /\ a.bg = None /\ a.bgp # None
        captioned == has_bg0 /\ a.bg # None /\ a.bgp = None
        bgid == IF a.bgp # None THEN BgPromptId
                ELSE IF a.bg = None THEN WhitePromptId
                ELSE get_text_prompts(i2t, BgImage).prompt
    IN  [has_background |-> has_bg0 /\ ~asRegion,
         captions |-> IF captioned THEN get_text_prompts(i2t, BgImage).calls ELSE 0,
         fg_masks |-> IF asRegion THEN <<bg_masks>> \o pm.masks ELSE pm.masks,
         prompts |-> IF has_bg0 THEN <<bgid>> \o PromptIds(a) ELSE PromptIds(a),
         negative_prompts |-> IF has_bg0 THEN <<BgNegPromptId>> \o NegPromptIds(a)
                              ELSE NegPromptIds(a),
         background |-> IF a.bg = None THEN Ones ELSE BgImage]

\* guidance_scale > 1.0 (lines 774-780).
GuidanceScale(a) ==
    IF a.guidance.gs = NoneNum THEN DefaultGuidanceScale ELSE a.guidance.gs
DoCfg(a) == GuidanceScale(a) > Q

\* The first failing assertion of lines 914-961, or None.  fe.shape ==
\* num_prompts (lines 936 and 949) compares a shape with an int and is never
\* true; masks.shape (line 961) does not exist on a list.
EmbedErr(a, b, pe0, ne0) ==
    IF DoCfg(a) /\ a.np > a.nn /\ b.has_background
    THEN Err("AssertionError:fe.shape", a.np, a.nn)
    ELSE IF DoCfg(a) /\ a.np > a.nn /\ ~(Len(ne0) = 1 /\ Len(pe0) = a.np)
    THEN Err("AssertionError:negative_prompt_embeds", Len(ne0), Len(pe0))
    ELSE IF Len(a.masks.seq) > a.np /\ a.masks.kind = "list"
    THEN Err("AttributeError:masks.shape", Len(a.masks.seq), a.np)
    ELSE NoErr

\* Lines 914-958: the embeddings blended with the background's, and the
\* negative ones repeated over the prompts.
BlendPos(a, b, pe0) ==
    IF b.has_background
    THEN Lerp(<<pe0[1]>>, Tail(pe0), [k \in 1..a.np |-> DefaultPromptStrength])
    ELSE pe0
BlendNeg(a, b, ne0) ==
    IF ~DoCfg(a) THEN <<>>
    ELSE IF b.has_background
    THEN Lerp(<<ne0[1]>>, Tail(ne0), [k \in 1..a.np |-> DefaultPromptStrength])
    ELSE IF a.np > a.nn THEN Repeat(ne0, a.np)
    ELSE ne0

\* Lines 960-973: repeated over the masks, negative ones first.
FinalEmbeds(a, pe1, ne1) ==
    IF Len(a.masks.seq) > a.np
    THEN (IF DoCfg(a) THEN Repeat(ne1, Len(a.masks.seq)) ELSE <<>>)
         \o Repeat(pe1, Len(a.masks.seq))
    ELSE (IF DoCfg(a) THEN ne1 ELSE <<>>) \o pe1

\* Lines 982-1005, with the noise of the latent initialization.
Prepared(a, sch, pm, b, prompt_embeds, stages, seeded, noise, bg_latent) ==
    [err |-> NoErr,
     did |-> stages,
     captions |-> b.captions,
     sch |-> sch,
     latent |-> IF seeded THEN scheduler_add_noise(sch.sigmas, bg_latent, noise, 0, noise)
                ELSE noise,
     rng |-> IF seeded THEN 1 ELSE 2,
     loop |-> [fg_masks |-> b.fg_masks,
               masks_g |-> pm.masks_blurred,
               has_background |-> b.has_background,
               background |-> b.background,
               noise_bg_latents |->
                   IF b.has_background
                   THEN [k \in 1..Len(sch.timesteps) |->
                            scheduler_add_noise(sch.sigmas, bg_latent, noise, k - 1, noise)]
                        \o <<bg_latent>>
                   ELSE <<>>,
               prompts |-> b.prompts,
               negative_prompts |-> b.negative_prompts,
               prompt_embeds |-> prompt_embeds,
               num_masks |-> Len(a.masks.seq),
               cfg |-> DoCfg(a),
               guidance_scale |-> GuidanceScale(a),
               guidance_rescale |-> a.guidance.resc,
               bootstrap_steps |-> IF a.boot = NoneNum THEN DefaultBootstrapSteps
                                   ELSE a.boot,
               boostrap_mix_steps |-> IF a.mix = NoneNum
                                      THEN DefaultBootstrapMixSteps ELSE a.mix,
               white |-> encode_imgs(Ones),
               noise |-> noise,
               seed |-> a.seed]]

PrepareEmbeds(a, sch, pm, b, stages, pe0, ne0) ==
    IF EmbedErr(a, b, pe0, ne0).kind # None
    THEN [Failed(sch, EmbedErr(a, b, pe0, ne0), stages)
              EXCEPT !.captions = b.captions]
    ELSE Prepared(a, sch, pm, b,
                  FinalEmbeds(a, BlendPos(a, b, pe0), BlendNeg(a, b, ne0)),
                  stages,
                  sch.timesteps[1] < 999 /\ b.has_background,
                  IF sch.timesteps[1] < 999 /\ b.has_background
                  THEN Randn(a.seed, 0) ELSE Randn(a.seed, 1),
                  IF b.has_background THEN encode_imgs(b.background) ELSE Zeros)

PrepareBackground(a, sch, pm, b) ==
    PrepareEmbeds(a, sch, pm, b,
                  {"mask", "textenc"}
                  \cup (IF b.captions > 0 THEN {"caption"} ELSE {})
                  \cup (IF b.has_background THEN {"imgenc"} ELSE {})
                  \cup (IF a.boot = NoneNum \/ a.boot > 0 THEN {"white"} ELSE {}),
                  EncodePrompts(b.prompts),
                  IF DoCfg(a) THEN EncodePrompts(b.negative_prompts) ELSE <<>>)

PrepareBgMasks(a, i2t, sch, pm, bg_masks) ==
    PrepareBackground(a, sch, pm,
                      Background(a, i2t, pm, bg_masks, HasBackground(bg_masks)))

PrepareMasks(a, i2t, sch, pm) ==
    PrepareBgMasks(a, i2t, sch, pm, BgMasks(pm.masks, Len(sch.timesteps)))

\* preprocess_mask_cover_alpha as process_mask resolves it (lines 504-505).
CoverAlphaDefault(a) == DefaultCoverAlpha
CoverAlpha(a) == IF a.alpha = NoneNum THEN DefaultCoverAlpha ELSE a.alpha

\* Everything __call__ computes from line 790 to line 1005 on the schedule
\* sch.  err names the first statement that raises, did the stages run
\* before it.
Prepare(a, sch, mtype, i2t) ==
    IF ~PromptCountOk(a.np, Len(a.masks.seq))
    THEN Failed(sch, Err("AssertionError:prompts", a.np, Len(a.masks.seq)), {})
    ELSE IF ~NegCountOk(a.nn, a.np)
    THEN Failed(sch, Err("AssertionError:negative_prompts", a.nn, a.np), {})
    ELSE PrepareMasks(a, i2t, sch,
            process_mask(mtype, sch, a.masks.seq, DefaultMaskStrength,
                         CoverAlpha(a)))

\* ------------------------------------------------------------ tiling
\* height <= tile_size and width <= tile_size (lines 1001-1003): one view,
\* the whole canvas, with a tile mask of ones.
Views == << [lo |-> 1, hi |-> NPix] >>
TileMasksHalf == << [p \in Pix |-> Q \div 2] >>
TileMasks == << Ones >>

\* get_panorama_views(h, w, t) of util on one axis of w pixels with tiles of
\* t < w pixels: overlapping tiles a stride of half a tile apart (at least
\* one pixel), the last one ending at the canvas edge, and for each tile a
\* canvas-sized weight map, zero outside the tile, such that the weights of
\* the tiles over a pixel sum to one.
PanoStride(t) == Max(1, t \div 2)
PanoCount(w, t) == ((w - t + PanoStride(t) - 1) \div PanoStride(t)) + 1
PanoView(w, t, k) ==
    [lo |-> Min(1 + (k - 1) * PanoStride(t), w - t + 1),
     hi |-> Min(1 + (k - 1) * PanoStride(t), w - t + 1) + t - 1]
PanoCover(w, t, p) ==
    { k \in 1..PanoCount(w, t) : p \in PanoView(w, t, k).lo..PanoView(w, t, k).hi }
PanoWeight(w, t, k, p) ==
    IF k \notin PanoCover(w, t, p) THEN 0
    ELSE IF \A m \in PanoCover(w, t, p) : k <= m
    THEN Q - (Cardinality(PanoCover(w, t, p)) - 1)
             * (Q \div Cardinality(PanoCover(w, t, p)))
    ELSE Q \div Cardinality(PanoCover(w, t, p))
get_panorama_views(w, t) ==
    [views |-> [k \in 1..PanoCount(w, t) |-> PanoView(w, t, k)],
     tile_masks |-> [k \in 1..PanoCount(w, t) |->
                        [p \in 1..w |-> PanoWeight(w, t, k, p)]]]

\* ------------------------------------------- shift_to_mask_bbox_center
\* A tensor over a tile of w pixels is a sequence of length w; Tup builds
\* it from its entries.
RECURSIVE Tup(_, _)
Tup(f, n) == IF n = 0 THEN <<>> ELSE Append(Tup(f, n - 1), f[n])
\* latent[..., lo:hi]
Slice(f, lo, hi) == Tup([x \in 1..(hi - lo + 1) |-> f[lo + x - 1]], hi - lo + 1)

\* util.shift_to_mask_bbox_center on a tile: every batch entry is rolled so
\* that the centre of its mask's bounding box moves to the centre of the
\* tile (reverse) or back.  zip() pairs entries up to the shorter of the two
\* batches.  Offsets are zero-based.
FirstOcc(m) ==
    IF \E x \in 1..Len(m) : m[x] > 0
    THEN (CHOOSE x \in 1..Len(m) : m[x] > 0 /\ \A y \in 1..(x - 1) : m[y] <= 0) - 1
    ELSE 0
LastOcc(m) ==
    IF \E x \in 1..Len(m) : m[x] > 0
    THEN (CHOOSE x \in 1..Len(m) : m[x] > 0 /\ \A y \in (x + 1)..Len(m) : m[y] <= 0) - 1
    ELSE 0
ShiftOf(m) == ((FirstOcc(m) + LastOcc(m) + 1) \div 2) - (Len(m) \div 2)
Roll(f, sh) == Tup([x \in 1..Len(f) |-> f[1 + ((x - 1 - sh) % Len(f))]], Len(f))
shift_to_mask_bbox_center(im, mask, reverse) ==
    Tup([k \in 1..Min(Len(im), Len(mask)) |->
            Roll(im[k], IF reverse THEN 0 - ShiftOf(mask[k]) ELSE ShiftOf(mask[k]))],
        Min(Len(im), Len(mask)))

\* torch.sigmoid(leak / sensitivity) * 2 - 1 = tanh(leak / (2 sensitivity)),
\* by the rational approximation y (27 + y^2) / (27 + 9 y^2), at most 1.
\* leak is a square, in units of 1 / Q^2; the score is 0 for a leak of 0
\* and positive for a positive leak.
LeakSigmoid(leak, sens) ==
    LET y == leak \div (2 * sens)
    IN  IF leak = 0 THEN 0
        ELSE Max(1, Min(Q, (y * (27 * Q * Q + y * y))
                             \div (27 * Q * Q + 9 * y * y)))

\* self.transformer and the guidance rule (lines 1035-1051) on a batch.
PredictEntryCond(L, sum, t, w, e_uncond, e_cond) ==
    Tup([x \in 1..w |-> Denoise(sum, x, t, e_cond)], w)
PredictEntry(L, sum, t, w, e_uncond, e_cond) ==
    Tup([x \in 1..w |->
           IF L.cfg
           THEN Denoise(sum, x, t, e_uncond)
                + Mul(L.guidance_scale,
                      Denoise(sum, x, t, e_cond) - Denoise(sum, x, t, e_uncond))
           ELSE Denoise(sum, x, t, e_uncond)], w)
Predict(L, latIn, t, w) ==
    Tup([k \in 1..Len(latIn) |->
           PredictEntry(L, SumSeq(latIn[k]), t, w, L.prompt_embeds[k],
                        L.prompt_embeds[IF L.cfg THEN Len(latIn) + k ELSE k])],
        Len(latIn))

\* ------------------------------------------------- one tile of one step
\* Lines 1018-1071 for one view at step i (zero-based).  A tile's tensors
\* are sequences over its w pixels; dv and dc are what the tile adds to
\* value and count_all.
TileErr(kind) == [err |-> kind, dv |-> <<>>, dc |-> <<>>]

\* Lines 1069-1071.  The products added to value are kept whole, in units
\* of 1 / Q^2, so that the quotient of the merge is rounded once.
TileAccumulate(w, lat4, fgm6) ==
    [err |-> None,
     dv |-> Tup([x \in 1..w |-> SumSeq([k \in 1..Bcast(Len(fgm6), Len(lat4)) |->
                    At(fgm6, k)[x] * At(lat4, k)[x]])], w),
     dc |-> Tup([x \in 1..w |-> SumSeq([k \in 1..Len(fgm6) |-> fgm6[k][x]])], w)]

\* Lines 1063-1069: the masks times the leakage score (bootstrap only) and
\* the tile mask.
Weights(w, tm, fg_mask_, bg_latent_, boot, lat4, n) ==
    Tup([k \in 1..n |-> Tup([x \in 1..w |->
           Mul(IF boot
               THEN Mul(At(fg_mask_, k)[x],
                        LeakSigmoid((At(lat4, k)[x] - bg_latent_[x])
                                    * (At(lat4, k)[x] - bg_latent_[x]),
                                    DefaultLeakSensitivity))
               ELSE fg_mask_[k][x],
               tm[x])], w)], n)

TileWeigh(w, tm, fg_mask_, bg_latent_, boot, lat4) ==
    IF (boot /\ Bcast(Len(fg_mask_), Len(lat4)) = 0)
       \/ Bcast(Len(fg_mask_), Len(lat4)) = 0
    THEN TileErr("RuntimeError:shape")
    ELSE TileAccumulate(w, lat4,
            Weights(w, tm, fg_mask_, bg_latent_, boot, lat4,
                    IF boot THEN Bcast(Len(fg_mask_), Len(lat4)) ELSE Len(fg_mask_)))

\* Lines 1057-1061.
Denoised(sch, i, w, latIn, pred) ==
    Tup([k \in 1..Len(latIn) |->
           Tup(scheduler_step(sch.sigmas, pred[k], i, latIn[k]), w)], Len(latIn))

TileDenoise(sch, i, w, tm, fg_mask_, bg_latent_, boot, latIn, pred) ==
    TileWeigh(w, tm, fg_mask_, bg_latent_, boot,
              IF boot
              THEN shift_to_mask_bbox_center(Denoised(sch, i, w, latIn, pred),
                                             fg_mask_, FALSE)
              ELSE Denoised(sch, i, w, latIn, pred))

\* Lines 1034-1055.
TilePredict(L, sch, i, w, tm, fg_mask_, bg_latent_, boot, latIn) ==
    IF Len(L.prompt_embeds) # (IF L.cfg THEN 2 * Len(latIn) ELSE Len(latIn))
    THEN TileErr("RuntimeError:transformer")
    ELSE IF L.cfg /\ L.guidance_rescale > 0
    THEN TileErr("NameError:rescale_noise_cfg")
    ELSE TileDenoise(sch, i, w, tm, fg_mask_, bg_latent_, boot, latIn,
                     Predict(L, latIn, sch.timesteps[i + 1], w))

\* Line 1029: the bootstrap background outside each mask.
Composite(w, fg_mask_, tile, bg_latent_, n) ==
    Tup([k \in 1..n |-> Tup([x \in 1..w |->
           Mul(Q - At(fg_mask_, k)[x], bg_latent_[x])
           + Mul(At(fg_mask_, k)[x], tile[x])], w)], n)

\* if i < bootstrap_steps (lines 1022 and 1059).
Bootstrapping(L, i) == i < L.bootstrap_steps

\* Lines 1019-1032: the batch handed to the transformer.
ModelInput(L, i, w, fg_mask_, tile, bg_latent_) ==
    IF Bootstrapping(L, i)
    THEN shift_to_mask_bbox_center(
             Composite(w, fg_mask_, tile, bg_latent_,
                       Bcast(Len(fg_mask_), L.num_masks)),
             fg_mask_, TRUE)
    ELSE Tup([k \in 1..L.num_masks |-> tile], L.num_masks)

TileInput(L, sch, i, w, tm, fg_mask_, tile, bg_latent_) ==
    IF Bootstrapping(L, i) /\ Bcast(Len(fg_mask_), L.num_masks) = 0
    THEN TileErr("RuntimeError:bootstrap shape")
    ELSE TilePredict(L, sch, i, w, tm, fg_mask_, bg_latent_,
                     Bootstrapping(L, i),
                     ModelInput(L, i, w, fg_mask_, tile, bg_latent_))

\* Lines 1023-1028: the bootstrap background of the tile.
\* mix_ratio = min(1, max(0, boostrap_mix_steps - i)) (line 1023).
MixRatioUnclipped(L, i) == Max(0, L.boostrap_mix_steps - i * Q)
MixRatio(L, i) == Min(Q, Max(0, L.boostrap_mix_steps - i * Q))
BootBackground(w, mix_ratio, white_, bgl0) ==
    Tup([x \in 1..w |-> Mul(mix_ratio, white_[x]) + Mul(Q - mix_ratio, bgl0[x])], w)

\* fg_mask_ and bg_latent_ of the view lo..hi (lines 1018, 1023-1028).
ViewMasks(L, i, lo, hi) ==
    Tup([k \in 1..Len(L.fg_masks) |-> Slice(L.fg_masks[k][i + 1], lo, hi)],
        Len(L.fg_masks))
ViewBackground(L, sch, i, latent, lo, hi) ==
    BootBackground(hi - lo + 1, MixRatio(L, i),
        scheduler_add_noise(sch.sigmas, Slice(L.white, lo, hi), L.noise, i,
                            L.noise),
        IF L.has_background THEN Slice(L.noise_bg_latents[i + 1], lo, hi)
        ELSE Slice(latent, lo, hi))

\* scheduler_add_noise(white_, noise, i) of line 1027 adds the noise of the
\* whole canvas to the white latent of the view: the shapes broadcast only
\* when the view is the canvas.
TileStep(L, sch, i, latent, lo, hi, tm) ==
    IF Bootstrapping(L, i) /\ hi - lo + 1 # Len(L.noise)
    THEN TileErr("RuntimeError:add_noise shape")
    ELSE
    TileInput(L, sch, i, hi - lo + 1, Slice(tm, lo, hi),
              ViewMasks(L, i, lo, hi),
              Slice(latent, lo, hi),
              ViewBackground(L, sch, i, latent, lo, hi))

\* The batch the transformer receives for view j of step i, and the
\* prediction handed to scheduler_step (line 1057).
ViewInput(L, sch, i, latent, j) ==
    ModelInput(L, i, Views[j].hi - Views[j].lo + 1,
               ViewMasks(L, i, Views[j].lo, Views[j].hi),
               Slice(latent, Views[j].lo, Views[j].hi),
               ViewBackground(L, sch, i, latent, Views[j].lo, Views[j].hi))
ViewPred(L, sch, i, latent, j) ==
    Predict(L, ViewInput(L, sch, i, latent, j), sch.timesteps[i + 1],
            Views[j].hi - Views[j].lo + 1)

\* ---------------------------------------------------- one step of the loop
\* value[..., lo:hi] += dv and count_all[..., lo:hi] += dc.
AssignAt(f, v, d) == [p \in DOMAIN f |-> IF p \in v.lo..v.hi THEN d[p - v.lo + 1] ELSE f[p]]
\* f[..., lo:hi] += d
AddAt(f, v, d) == [p \in DOMAIN f |-> IF p \in v.lo..v.hi THEN f[p] + d[p - v.lo + 1] ELSE f[p]]

TileAdd(before, v, ts) ==
    IF ts.err # None
    THEN [err |-> ts.err, value |-> before.value, count_all |-> before.count_all]
    ELSE [err |-> None,
          value |-> AddAt(before.value, v, ts.dv),
          count_all |-> AddAt(before.count_all, v, ts.dc)]

\* The tile loop (lines 1017-1071): the accumulators after the views
\* 1..j, or the error of the first view that raises.
KeepAccumulators(value, count_all) ==
    [err |-> None, value |-> value, count_all |-> count_all]

\* value.zero_() and count_all.zero_() (lines 1015-1016) on the
\* accumulators the step before left.
ZeroAccumulators(value, count_all) ==
    [err |-> None, value |-> Zeros, count_all |-> Zeros]

\* The first j iterations of the loop of line 1017 over the given views.
RECURSIVE TileLoopOver(_, _, _, _, _, _, _, _)
TileNext(L, sch, i, latent, views, tile_masks, j, before) ==
    IF before.err # None THEN before
    ELSE TileAdd(before, views[j],
                 TileStep(L, sch, i, latent, views[j].lo, views[j].hi,
                          tile_masks[j]))
TileLoopOver(L, sch, i, latent, views, tile_masks, j, acc0) ==
    IF j = 0 THEN acc0
    ELSE TileNext(L, sch, i, latent, views, tile_masks, j,
                  TileLoopOver(L, sch, i, latent, views, tile_masks, j - 1, acc0))
TileLoop(L, sch, i, latent, j, acc0) ==
    TileLoopOver(L, sch, i, latent, Views, TileMasks, j, acc0)

MergeOnes(value, count_all) ==
    [p \in Pix |-> IF count_all[p] > 0
                   THEN value[p] \div count_all[p]
                   ELSE Q]

\* latent = torch.where(count_all > 0, value / count_all, value)
Merge(value, count_all) ==
    [p \in Pix |-> IF count_all[p] > 0
                   THEN value[p] \div count_all[p]
                   ELSE value[p]]

BlendBackgroundStale(L, i, count_all, merged) ==
    IF L.has_background
    THEN [p \in Pix |->
            Mul(Q - Clip(Q - count_all[p], 0, Q), merged[p])
            + Mul(Clip(Q - count_all[p], 0, Q), L.noise_bg_latents[i + 1][p])]
    ELSE merged

\* Lines 1074-1076: the known background in the uncovered pixels.
BlendBackground(L, i, count_all, merged) ==
    IF L.has_background
    THEN [p \in Pix |->
            Mul(Q - Clip(Q - count_all[p], 0, Q), merged[p])
            + Mul(Clip(Q - count_all[p], 0, Q), L.noise_bg_latents[i + 2][p])]
    ELSE merged

\* Lines 1073-1080.
StepMerge(L, sch, i, rng, acc) ==
    [err |-> acc.err,
     value |-> acc.value,
     count_all |-> acc.count_all,
     noised |-> i < Len(sch.timesteps) - 1,
     merged |-> IF acc.err # None THEN Zeros
                ELSE Merge(acc.value, acc.count_all),
     blended |-> IF acc.err # None THEN Zeros
                 ELSE BlendBackground(L, i, acc.count_all,
                                      Merge(acc.value, acc.count_all)),
     latent |-> IF acc.err # None THEN Zeros
                ELSE IF i < Len(sch.timesteps) - 1
                THEN scheduler_add_noise(sch.sigmas,
                        BlendBackground(L, i, acc.count_all,
                                        Merge(acc.value, acc.count_all)),
                        NoNoise, i + 1, Randn(L.seed, rng))
                ELSE BlendBackground(L, i, acc.count_all,
                                     Merge(acc.value, acc.count_all))]

\* Lines 1012-1080 for step i (zero-based), draw number rng of the
\* generator, on the accumulators value and count_all of the step before.
StepBody(L, sch, i, latent, rng, value, count_all) ==
    StepMerge(L, sch, i, rng,
              TileLoop(L, sch, i, latent, Len(Views),
                       ZeroAccumulators(value, count_all)))

\* ------------------------------------------------------------ output stage
\* T.ToPILImage: floats in [0, 1] to bytes.
ToPILImage(x) == [p \in DOMAIN x |-> Clip((x[p] * 255) \div Q, 0, 255)]

\* util.blend: Image.composite of the image over the background by the mask.
blend(fg, bg, mask) ==
    LET f == ToPILImage(fg)
        b == ToPILImage(bg)
        m == ToPILImage(mask)
    IN  [p \in Pix |-> (f[p] * m[p] + b[p] * (255 - m[p])) \div 255]

\* Lines 1082-1095.
Output(L, latent, output_type, do_blend) ==
    LET decoded == output_type # "latent"
        image0 == IF decoded THEN VaeDecode(latent) ELSE latent
        image1 == [p \in Pix |-> Clip(image0[p], 0 - Q, Q) \div 2 + Q \div 2]
        fg_mask == [p \in Pix |->
                      Clip(SumSeq([r \in 1..Len(L.masks_g) |-> L.masks_g[r][p]]), 0, Q)]
    IN  [kind |-> "image",
         decoded |-> decoded,
         data |-> IF L.has_background /\ do_blend
                  THEN blend(image1, L.background, fg_mask)
                  ELSE ToPILImage(image1)]

\* ------------------------------------------------------------------ state
VARIABLES
    mask_type,    \* self.mask_type
    has_i2t,      \* whether __init__ loaded the captioner (self.i2t_model)
    schedN,       \* the length of the scheduler's reference timeline
    sched,        \* timesteps, sigmas, sigmas_next, noise_lvs, next_noise_lvs
    white,        \* self.white: the image size the cached white latent stands for
    interrupt,    \* self.pipe._interrupt
    pc,           \* "idle", "loop", "done" or "failed"
    args,         \* the arguments of the running call
    loop,         \* what the loop reads and never writes
    i,            \* the loop index
    latent,       \* the canvas latent
    value,        \* accumulator: weighted latent sum
    count_all,    \* accumulator: weight sum
    rng,          \* number of draws made from the random generator
    result,       \* what the call returned
    error,        \* what the call raised
    did,          \* history: the stages the call has run
    captions,     \* history: the number of calls of the captioner in the call
    trace,        \* history: the steps executed, each with its input and output
    skipped,      \* history: the loop indices passed over by `continue`
    handed,       \* history: the latents handed to the output stage
    start,        \* history: the latent and the draw count the loop was entered with
    probe         \* the last direct call of a public method, with its result

vars == << mask_type, has_i2t, schedN, sched, white, interrupt, pc, args, loop, i, latent,
           value, count_all, rng, result, error, did, captions, trace, skipped, handed,
           start, probe >>

pipeVars == << mask_type, has_i2t, schedN, sched, white >>
histVars == << did, captions, trace, skipped, handed, start >>

NoLoop == [has_background |-> FALSE]
NoArgs == [np |-> 0]
NoResult == [kind |-> None, decoded |-> FALSE, data |-> Zeros]
NoProbe == [op |-> None]
NoStart == [latent |-> Zeros, rng |-> 0]

\* __init__: lines 172-243.
Init ==
    /\ mask_type \in MaskTypes \cup {"other"}
    /\ has_i2t \in BOOLEAN
    /\ schedN = InitNumInferenceSteps
    /\ sched = ScheduleFields(DefaultTList, InitNumInferenceSteps)
    /\ white = get_white_background([has |-> FALSE, h |-> 0, w |-> 0],
                                    DefaultSize, DefaultSize).cache
    /\ interrupt = FALSE
    /\ pc = "idle"
    /\ args = NoArgs
    /\ loop = NoLoop
    /\ i = 0
    /\ latent = Zeros
    /\ value = Zeros
    /\ count_all = Zeros
    /\ rng = 0
    /\ result = NoResult
    /\ error = NoErr
    /\ did = {}
    /\ captions = 0
    /\ trace = <<>>
    /\ skipped = {}
    /\ handed = <<>>
    /\ start = NoStart
    /\ probe = NoProbe

\* ---------------------------------------------------------------- actions
\* A call that ends before the loop: with its result, or with its error.
EndCall(a, res, err, stages) ==
    /\ pc' = IF err.kind = None THEN "done" ELSE "failed"
    /\ args' = a
    /\ result' = res
    /\ error' = err
    /\ did' = stages
    /\ UNCHANGED << loop, i, latent, value, count_all, rng, trace, skipped,
                    handed, start, probe, mask_type, has_i2t >>

\* __call__ up to the loop (lines 755-1005).
Call(a) ==
    /\ pc = "idle"
    /\ IF NoPrompts(a)
       THEN /\ IF a.bg = None /\ a.bgp # None
               THEN EndCall(a, NoResult, Err("NameError:sample", 0, 0), {})
               ELSE EndCall(a, [kind |-> "background", decoded |-> FALSE,
                                data |-> IF a.bg = None THEN Zeros ELSE BgImage],
                            NoErr, {})
            /\ captions' = 0
            /\ UNCHANGED << schedN, sched, interrupt, white >>
       ELSE IF NoMasks(a)
       THEN /\ EndCall(a, NoResult, Err("NameError:sample", 0, 0), {})
            /\ captions' = 0
            /\ UNCHANGED << schedN, sched, interrupt, white >>
       ELSE \E pr \in {Prepare(a, CallSchedule(a, sched), mask_type,
                                has_i2t)} :
            \E stages \in {pr.did \cup (IF a.nis # NoneNum THEN {"schedule"} ELSE {})
                            \cup (IF "white" \in pr.did
                                     /\ get_white_background(white, DefaultSize,
                                                             DefaultSize).encoded
                                  THEN {"whiteenc"} ELSE {})} :
                /\ white' = IF "white" \in pr.did
                            THEN get_white_background(white, DefaultSize,
                                                      DefaultSize).cache
                            ELSE white
                /\ sched' = pr.sch
                /\ schedN' = IF a.nis # NoneNum THEN a.nis ELSE schedN
                /\ interrupt' = FALSE
                /\ captions' = pr.captions
                /\ IF pr.err.kind # None
                   THEN EndCall(a, NoResult, pr.err, stages)
                   ELSE /\ pc' = "loop"
                        /\ args' = a
                        /\ loop' = pr.loop
                        /\ i' = 0
                        /\ latent' = pr.latent
                        /\ value' = Zeros
                        /\ count_all' = Zeros
                        /\ rng' = pr.rng
                        /\ did' = stages
                        /\ start' = [latent |-> pr.latent, rng |-> pr.rng]
                        /\ UNCHANGED << result, error, trace, skipped, handed,
                                        probe, mask_type, has_i2t >>

\* if self.pipe.interrupt: continue (lines 1009-1010).
InterruptedNever(flag) == FALSE
Interrupted(flag) == flag

\* The loop has run through self.timesteps.
LoopDoneEarly(idx, T) == idx >= T - 1
LoopDone(idx, T) == idx = T

\* One iteration of the loop (lines 1008-1080).
Step ==
    /\ pc = "loop"
    /\ ~LoopDone(i, Len(sched.timesteps))
    /\ IF Interrupted(interrupt)
       THEN /\ i' = i + 1
            /\ skipped' = skipped \cup {i}
            /\ UNCHANGED << pipeVars, interrupt, pc, args, loop, latent, value,
                            count_all, rng, result, error, did, captions, trace, handed,
                            start, probe >>
       ELSE \E sb \in {StepBody(loop, sched, i, latent, rng, value, count_all)} :
                /\ value' = sb.value
                /\ count_all' = sb.count_all
                /\ IF sb.err # None
                   THEN /\ pc' = "failed"
                        /\ error' = Err(sb.err, i, 0)
                        /\ did' = did \cup (IF sb.err = "RuntimeError:bootstrap shape"
                                             THEN {} ELSE {"denoise"})
                        /\ UNCHANGED << i, latent, rng, trace >>
                   ELSE /\ i' = i + 1
                        /\ latent' = sb.latent
                        /\ rng' = IF sb.noised THEN rng + 1 ELSE rng
                        /\ trace' = Append(trace,
                               [i |-> i, in |-> latent, out |-> sb.latent,
                                flag |-> interrupt, value |-> sb.value,
                                merged |-> sb.merged,
                                acc0 |-> ZeroAccumulators(value, count_all),
                                boot |-> Bootstrapping(loop, i),
                                mix_ratio |-> MixRatio(loop, i),
                                blended |-> sb.blended,
                                model_in |-> Tup([j \in 1..Len(Views) |->
                                    ViewInput(loop, sched, i, latent, j)],
                                    Len(Views)),
                                pred |-> Tup([j \in 1..Len(Views) |->
                                    ViewPred(loop, sched, i, latent, j)],
                                    Len(Views)),
                                count_all |-> sb.count_all,
                                rng |-> IF sb.noised THEN rng + 1 ELSE rng])
                        /\ did' = did \cup {"denoise"}
                        /\ UNCHANGED << pc, error >>
                /\ UNCHANGED << pipeVars, interrupt, args, loop, result, skipped,
                                handed, start, probe, captions >>

\* The output stage (lines 1082-1095).
Finish ==
    /\ pc = "loop"
    /\ LoopDone(i, Len(sched.timesteps))
    /\ handed' = Append(handed, latent)
    /\ did' = did \cup (IF args.output_type # "latent" THEN {"decode"} ELSE {})
    /\ \/ /\ pc' = "done"
          /\ result' = Output(loop, latent, args.output_type, args.do_blend)
          /\ UNCHANGED error
       \/ \* ToPILImage raises on a tensor of more than four channels: what
          \* it does with a raw latent depends on the transformer's in_channels.
          /\ args.output_type = "latent"
          /\ pc' = "failed"
          /\ error' = Err("ValueError:ToPILImage", 0, 0)
          /\ UNCHANGED result
    /\ UNCHANGED << pipeVars, interrupt, args, loop, i, latent, value, count_all,
                    rng, trace, skipped, start, probe, captions >>

\* The caller takes the result or the exception; the call's locals are gone.
Return ==
    /\ pc \in {"done", "failed"}
    /\ pc' = "idle"
    /\ args' = NoArgs
    /\ loop' = NoLoop
    /\ i' = 0
    /\ latent' = Zeros
    /\ value' = Zeros
    /\ count_all' = Zeros
    /\ rng' = 0
    /\ result' = NoResult
    /\ error' = NoErr
    /\ did' = {}
    /\ captions' = 0
    /\ trace' = <<>>
    /\ skipped' = {}
    /\ handed' = <<>>
    /\ start' = NoStart
    /\ UNCHANGED << pipeVars, interrupt, probe >>

\* Another thread sets pipe._interrupt while the loop runs.
SetInterrupt ==
    /\ pc = "loop"
    /\ ~interrupt
    /\ interrupt' = TRUE
    /\ UNCHANGED << pipeVars, pc, args, loop, i, latent, value, count_all, rng,
                    result, error, did, captions, trace, skipped, handed, start, probe >>

Next ==
    \/ \E a \in CountArgs : Call(a)
    \/ \E a \in RunArgs : Call(a)
    \/ Step
    \/ Finish
    \/ Return
    \/ SetInterrupt

Spec == Init /\ [][Next]_vars

\* ------------------------------------------- the public methods, directly
\* The latents and noises a direct call passes.
Levels == {0 - Q, Q \div 2}
Tensors == [Pix -> Levels]

\* The index lists and timeline lengths a direct call of
\* prepare_flashflowmatch_schedule passes: None, list(range(k)), a list
\* that runs backwards, one that reaches index MaxK, and a negative index.
TListArgs ==
    {NoList} \cup { Range(k) : k \in 1..MaxK }
    \cup { << MaxK - 1, 0 >>, << 0, MaxK >>, << 0 - 1 >> }
StepsArgs == {NoneNum, InitNumInferenceSteps} \cup 1..MaxK

\* prepare_flashflowmatch_schedule(t_index_list, num_inference_steps)
\* (lines 245-299), called between two generation calls.
PrepareSchedule(t_index_list, num_inference_steps) ==
    /\ pc = "idle"
    /\ probe.op = None
    /\ \E r \in {prepare_flashflowmatch_schedule(sched, t_index_list,
                                                  num_inference_steps)} :
          /\ sched' = r.sch
          /\ schedN' = r.n
          /\ probe' = [op |-> "prepare_flashflowmatch_schedule",
                       t_index_list |-> t_index_list,
                       num_inference_steps |-> num_inference_steps,
                       before |-> sched,
                       err |-> r.err]
    /\ UNCHANGED << mask_type, has_i2t, white, interrupt, pc, args, loop, i,
                    latent, value, count_all, rng, result, error, did, captions,
                    trace, skipped, handed, start >>

\* scheduler_add_noise(lat, noise, idx) on the current schedule
\* (lines 606-631); seed picks what the generator draws if it is asked.
AddNoise(lat, noise, idx, seed) ==
    /\ pc = "idle"
    /\ probe.op = None
    /\ probe' = [op |-> "scheduler_add_noise",
                 sigmas |-> sched.sigmas,
                 latent |-> lat,
                 noise |-> noise,
                 idx |-> idx,
                 randn |-> Randn(seed, 0),
                 out |-> scheduler_add_noise(sched.sigmas, lat, noise, idx,
                                             Randn(seed, 0))]
    /\ UNCHANGED << pipeVars, interrupt, pc, args, loop, i, latent, value,
                    count_all, rng, result, error, did, captions, trace, skipped, handed,
                    start >>

\* The image sizes a direct call of get_white_background asks for.
WhiteSizes == {DefaultSize \div 16, DefaultSize \div 8, DefaultSize \div 2,
               DefaultSize, 2 * DefaultSize}

\* get_white_background(height, width) (lines 382-404).
GetWhiteBackground(height, width) ==
    /\ pc = "idle"
    /\ probe.op = None
    /\ white' = get_white_background(white, height, width).cache
    /\ probe' = [op |-> "get_white_background",
                 height |-> height,
                 width |-> width,
                 before |-> white,
                 encoded |-> get_white_background(white, height, width).encoded,
                 shape |-> get_white_background(white, height, width).shape]
    /\ UNCHANGED << mask_type, has_i2t, schedN, sched, interrupt, pc, args, loop, i,
                    latent, value, count_all, rng, result, error, did, captions, trace,
                    skipped, handed, start >>

\* The caller takes the result of the direct call.
TakeResult ==
    /\ probe.op # None
    /\ probe' = NoProbe
    /\ UNCHANGED << pipeVars, interrupt, pc, args, loop, i, latent, value,
                    count_all, rng, result, error, did, captions, trace, skipped, handed,
                    start >>

\* The masks, strengths and cover alphas of a direct call of process_mask.
StrengthArgs == {Q, Q \div 2}
AlphaArgs == {NoneNum, 0, Q \div 2, Q}

\* process_mask(masks, strength, std=0, preprocess_mask_cover_alpha=alpha)
\* (lines 406-578).
ProcessMask(masks, strength, alpha) ==
    /\ pc = "idle"
    /\ probe.op = None
    /\ probe' = [op |-> "process_mask",
                 masks |-> masks,
                 strength |-> strength,
                 alpha |-> alpha,
                 out |-> process_mask(mask_type, sched, masks, strength,
                                      IF alpha = NoneNum THEN DefaultCoverAlpha
                                      ELSE alpha)]
    /\ UNCHANGED << pipeVars, interrupt, pc, args, loop, i, latent, value,
                    count_all, rng, result, error, did, captions, trace, skipped,
                    handed, start >>

\* A whole generation call, step after step with no interrupt: the error
\* it raises, the merged latent of every step and the image it returns.
RECURSIVE RunSteps(_, _, _, _, _, _, _, _)
RunNext(a, L, sch, idx, rng_, acc, sb) ==
    IF sb.err # None
    THEN [err |-> sb.err, merged |-> acc, out |-> NoResult]
    ELSE RunSteps(a, L, sch, idx + 1, sb.latent,
                  IF sb.noised THEN rng_ + 1 ELSE rng_, Append(acc, sb.merged),
                  sb)
RunSteps(a, L, sch, idx, lat, rng_, acc, prev) ==
    IF idx = Len(sch.timesteps)
    THEN [err |-> None, merged |-> acc,
          out |-> Output(L, lat, a.output_type, a.do_blend)]
    ELSE RunNext(a, L, sch, idx, rng_, acc,
                 StepBody(L, sch, idx, lat, rng_, prev.value, prev.count_all))
RunPrepared(a, pr) ==
    IF pr.err.kind # None
    THEN [err |-> pr.err.kind, merged |-> <<>>, out |-> NoResult]
    ELSE RunSteps(a, pr.loop, pr.sch, 0, pr.latent, pr.rng, <<>>,
                  [value |-> Zeros, count_all |-> Zeros])
RunAll(a, sch, mtype, i2t) ==
    RunPrepared(a, Prepare(a, CallSchedule(a, sch), mtype, i2t))

\* The permutation test: the call a, and the call with the same regions
\* listed in the reverse order, on the same pipeline and seed.
PermutedCalls(a) ==
    /\ pc = "idle"
    /\ probe.op = None
    /\ probe' = [op |-> "permuted",
                 a |-> a,
                 first |-> RunAll(a, sched, mask_type, has_i2t),
                 second |-> RunAll(Reversed(a), sched, mask_type, has_i2t)]
    /\ UNCHANGED << pipeVars, interrupt, pc, args, loop, i, latent, value,
                    count_all, rng, result, error, did, captions, trace, skipped,
                    handed, start >>

NextPerm ==
    \/ \E a \in PermArgs : PermutedCalls(a)
    \/ TakeResult

SpecPerm == Init /\ [][NextPerm]_vars

\* ------------------------------------------ the tile loop of a wide canvas
\* A canvas one pixel wider than the widest tile, and what one step of the
\* loop works with on it: the latent of the step before, the masks of the
\* regions, one embedding per region, no guidance and no background.
PanoWidth == NPix + 1
PanoPix == 1..PanoWidth
PanoLatents ==
    { [p \in PanoPix |-> (p * Q) \div 2],
      [p \in PanoPix |-> Q - p * p * (Q \div 4)] }
PanoMasks ==
    { [p \in PanoPix |-> Q],
      [p \in PanoPix |-> IF p <= PanoWidth \div 2 THEN Q ELSE 0],
      [p \in PanoPix |-> IF p <= PanoWidth \div 2 THEN 0 ELSE Q] }
PanoMaskSeqs == UNION { [1..n -> PanoMasks] : n \in 1..MaxRegions }
\* The tile sizes: the two largest below the canvas width.
PanoTiles == (NPix - 1)..NPix
PanoLoop(masks, bootstrap_steps) ==
    [fg_masks |-> [r \in 1..Len(masks) |->
                      [k \in 1..Len(DefaultTList) |-> masks[r]]],
     has_background |-> FALSE,
     noise_bg_latents |-> <<>>,
     prompt_embeds |-> EncodePrompts(Prompts(Len(masks))),
     num_masks |-> Len(masks),
     cfg |-> FALSE,
     guidance_scale |-> DefaultGuidanceScale,
     guidance_rescale |-> 0,
     bootstrap_steps |-> bootstrap_steps,
     boostrap_mix_steps |-> DefaultBootstrapMixSteps,
     white |-> [p \in PanoPix |-> (3 * Q) \div 2 + p],
     noise |-> [p \in PanoPix |-> ((p % 3) - 1) * (Q \div 2)]]

\* Step idx of the loop reaches the tile loop (line 1017) on a canvas wider
\* than the tile: the accumulators are zero and no tile has run.
TileLoopBegin(t, masks, lat, idx, bootstrap_steps) ==
    /\ pc = "idle"
    /\ probe.op = None
    /\ probe' = [op |-> "tile_loop",
                 loop |-> PanoLoop(masks, bootstrap_steps),
                 i |-> idx,
                 latent |-> lat,
                 views |-> get_panorama_views(PanoWidth, t).views,
                 tile_masks |-> get_panorama_views(PanoWidth, t).tile_masks,
                 at |-> [j \in 1..PanoCount(PanoWidth, t) |-> "todo"],
                 tile |-> [j \in 1..PanoCount(PanoWidth, t) |-> TileErr(None)],
                 value |-> [p \in PanoPix |-> 0],
                 count_all |-> [p \in PanoPix |-> 0],
                 order |-> <<>>,
                 err |-> None]
    /\ UNCHANGED << pipeVars, interrupt, pc, args, loop, i, latent, value,
                    count_all, rng, result, error, did, captions, trace, skipped,
                    handed, start >>

\* Lines 1018-1069 of the iteration of view j: everything it computes from
\* the latent of the step before.  An exception ends the loop.
TileCompute(j) ==
    /\ probe.op = "tile_loop"
    /\ probe.err = None
    /\ j \in DOMAIN probe.at
    /\ probe.at[j] = "todo"
    /\ \E ts \in {TileStep(probe.loop, sched, probe.i, probe.latent,
                            probe.views[j].lo, probe.views[j].hi,
                            probe.tile_masks[j])} :
          probe' = IF ts.err # None
                   THEN [probe EXCEPT !.err = ts.err]
                   ELSE [probe EXCEPT !.at[j] = "computed", !.tile[j] = ts]
    /\ UNCHANGED << pipeVars, interrupt, pc, args, loop, i, latent, value,
                    count_all, rng, result, error, did, captions, trace, skipped,
                    handed, start >>

\* Line 1070 of the iteration of view j; order lists the views as they
\* reach it.
TileAddValue(j) ==
    /\ probe.op = "tile_loop"
    /\ j \in DOMAIN probe.at
    /\ probe.at[j] = "computed"
    /\ probe' = [probe EXCEPT !.at[j] = "valued",
                              !.order = Append(probe.order, j),
                              !.value = AddAt(probe.value, probe.views[j],
                                              probe.tile[j].dv)]
    /\ UNCHANGED << pipeVars, interrupt, pc, args, loop, i, latent, value,
                    count_all, rng, result, error, did, captions, trace, skipped,
                    handed, start >>

\* Line 1071 of the iteration of view j.
TileAddCount(j) ==
    /\ probe.op = "tile_loop"
    /\ j \in DOMAIN probe.at
    /\ probe.at[j] = "valued"
    /\ probe' = [probe EXCEPT !.at[j] = "done",
                              !.count_all = AddAt(probe.count_all, probe.views[j],
                                                  probe.tile[j].dc)]
    /\ UNCHANGED << pipeVars, interrupt, pc, args, loop, i, latent, value,
                    count_all, rng, result, error, did, captions, trace, skipped,
                    handed, start >>

\* The iterations of the tile loop of one step, taken in any order and
\* interleaved statement by statement.
NextTile ==
    \/ \E t \in PanoTiles, masks \in PanoMaskSeqs, lat \in PanoLatents,
          idx \in 0..1, bootstrap_steps \in 0..1 :
          TileLoopBegin(t, masks, lat, idx, bootstrap_steps)
    \/ \E j \in 1..PanoWidth : TileCompute(j)
    \/ \E j \in 1..PanoWidth : TileAddValue(j)
    \/ \E j \in 1..PanoWidth : TileAddCount(j)
    \/ TakeResult

SpecTile == Init /\ [][NextTile]_vars

\* Calls that vary bootstrap_steps and boostrap_mix_steps.
NextBoot ==
    \/ \E a \in BootArgs : Call(a)
    \/ Step
    \/ Finish
    \/ Return

SpecBoot == Init /\ [][NextBoot]_vars

NextFn ==
    \/ \E tl \in TListArgs, n \in StepsArgs : PrepareSchedule(tl, n)
    \/ TakeResult
    \/ \E lat \in Tensors, noise \in Tensors \cup {NoNoise},
          idx \in (0 - 2)..(Len(sched.sigmas) + 1) :
            \E seed \in (IF noise = NoNoise THEN Seeds ELSE {1}) :
                AddNoise(lat, noise, idx, seed)

SpecFn == Init /\ [][NextFn]_vars

NextWhite ==
    \/ TakeResult
    \/ \E height \in WhiteSizes, width \in WhiteSizes :
            GetWhiteBackground(height, width)

SpecWhite == Init /\ [][NextWhite]_vars

NextMask ==
    \/ \E tl \in TListArgs, n \in StepsArgs : PrepareSchedule(tl, n)
    \/ TakeResult
    \/ \E m \in UNION { MaskSeqs(n) : n \in 1..MaxRegions },
          strength \in StrengthArgs, alpha \in AlphaArgs :
            ProcessMask(m, strength, alpha)

SpecMask == Init /\ [][NextMask]_vars

\* ------------------------------------------------------------- properties
\* C1: once a step finds the interrupt flag set, neither it nor any later
\* step does any work: no executed step saw the flag set, every index
\* passed over comes after every executed one, and from the first index
\* passed over on the latent, the accumulators and the generator stand as
\* the last completed step left them; that latent is the one handed to the
\* output stage.
C1_InterruptAborts ==
    /\ \A k \in 1..Len(trace) : ~trace[k].flag
    /\ \A s \in skipped : interrupt /\ s >= Len(trace)
    /\ skipped # {} =>
         /\ Len(trace) \in skipped
         /\ latent = (IF trace = <<>> THEN start.latent ELSE trace[Len(trace)].out)
         /\ value = (IF trace = <<>> THEN Zeros ELSE trace[Len(trace)].value)
         /\ count_all = (IF trace = <<>> THEN Zeros ELSE trace[Len(trace)].count_all)
         /\ rng = (IF trace = <<>> THEN start.rng ELSE trace[Len(trace)].rng)
         /\ \A h \in 1..Len(handed) : handed[h] = latent

\* A call interrupted after its second step has ended with the latent of
\* that step handed to the output stage.
C1_Witness ==
    /\ pc = "done"
    /\ skipped # {}
    /\ Len(trace) = 2
    /\ handed = << trace[2].out >>

\* C2: in a generation call the executed steps are 0, 1, 2, ... in this
\* order, each taking the latent the one before produced; the output stage
\* is entered at most once, in an uninterrupted call only after step T-1
\* and with its latent, and a call that returns has entered it exactly once.
C2_StepsInOrder ==
    /\ \A k \in 1..Len(trace) :
         /\ trace[k].i = k - 1
         /\ trace[k].in = (IF k = 1 THEN start.latent ELSE trace[k - 1].out)
    /\ Len(handed) <= 1
    /\ (pc = "loop" /\ skipped = {}) => i = Len(trace)
    /\ (handed # <<>> /\ skipped = {}) =>
         /\ Len(trace) = Len(sched.timesteps)
         /\ handed[1] = trace[Len(trace)].out
    /\ (pc = "done" /\ args.np > 0) => Len(handed) = 1

\* An uninterrupted call on the schedule of the constructor has returned.
C2_Witness ==
    /\ pc = "done"
    /\ skipped = {}
    /\ Len(trace) = Len(DefaultTList)
    /\ Len(handed) = 1

\* C3: scheduler_add_noise returns the latent unchanged for every idx < 0
\* and every idx >= T, whatever the noise (None included), and for
\* 0 <= idx < T with a noise given it returns
\* (1 - sigma[idx]) * latent + sigma[idx] * noise.
C3_AddNoise ==
    probe.op = "scheduler_add_noise" =>
        /\ (probe.idx < 0 \/ probe.idx >= Len(probe.sigmas)) =>
               probe.out = probe.latent
        /\ (probe.idx >= 0 /\ probe.idx < Len(probe.sigmas)
            /\ probe.noise # NoNoise) =>
               \A p \in Pix :
                   probe.out[p] =
                       ((Q - probe.sigmas[probe.idx + 1]) * probe.latent[p]) \div Q
                       + (probe.sigmas[probe.idx + 1] * probe.noise[p]) \div Q

\* scheduler_add_noise was called with idx = T and a noise that differs
\* from the latent, and returned the latent.
C3_Witness ==
    /\ probe.op = "scheduler_add_noise"
    /\ probe.idx = Len(probe.sigmas)
    /\ probe.noise # NoNoise
    /\ probe.noise # probe.latent
    /\ probe.out = probe.latent

\* C4, as stated: whenever the number of prompts is neither the number of
\* masks nor 1, or the number of negative prompts is neither the number of
\* prompts nor 1, the call fails with an error that reports both counts,
\* before any mask preprocessing, captioning, encoding or denoiser call.
C4_AnyMismatchRejected ==
    (/\ pc # "idle"
     /\ \/ args.np \notin {Len(args.masks.seq), 1}
        \/ args.nn \notin {args.np, 1})
    => /\ pc = "failed"
       /\ error.kind \in ValidationErrors
       /\ error.counts = (IF args.np \notin {Len(args.masks.seq), 1}
                          THEN << args.np, Len(args.masks.seq) >>
                          ELSE << args.nn, args.np >>)
       /\ did \cap {"mask", "caption", "textenc", "imgenc", "denoise"} = {}

\* C4, amended: the same, for a call that passes at least one prompt and
\* at least one mask.
C4_MismatchRejected ==
    (/\ pc # "idle"
     /\ ~NoPrompts(args)
     /\ ~NoMasks(args)
     /\ \/ args.np \notin {Len(args.masks.seq), 1}
        \/ args.nn \notin {args.np, 1})
    => /\ pc = "failed"
       /\ error.kind \in ValidationErrors
       /\ error.counts = (IF args.np \notin {Len(args.masks.seq), 1}
                          THEN << args.np, Len(args.masks.seq) >>
                          ELSE << args.nn, args.np >>)
       /\ did \cap {"mask", "caption", "textenc", "imgenc", "denoise"} = {}

\* A call with two prompts and one mask has failed on the first assertion.
C4_Witness ==
    /\ pc = "failed"
    /\ args.np = 2
    /\ Len(args.masks.seq) = 1
    /\ error = Err("AssertionError:prompts", 2, 1)
    /\ did = {}

\* C5: with one negative prompt for P > 1 prompts and P masks, under
\* classifier-free guidance, the call does not fail on its embeddings and
\* enters the loop with P negative embeddings, each the embedding of that
\* negative prompt.
C5_OneNegativeReplicated ==
    (/\ pc # "idle"
     /\ args.np > 1
     /\ args.nn = 1
     /\ Len(args.masks.seq) = args.np
     /\ DoCfg(args))
    => /\ error.kind \notin {"AssertionError:fe.shape",
                             "AssertionError:negative_prompt_embeds"}
       /\ pc = "loop" =>
            SubSeq(loop.prompt_embeds, 1, args.np)
                = [k \in 1..args.np |-> Emb(NegPrompts(1)[1])]

\* C6: with one prompt for M > 1 masks the call does not fail on its
\* embeddings and enters the loop with exactly M conditional embeddings.
C6_OnePromptReplicated ==
    (/\ pc # "idle"
     /\ args.np = 1
     /\ Len(args.masks.seq) > 1)
    => /\ error.kind \notin {"AttributeError:masks.shape",
                             "AssertionError:fe.shape",
                             "AssertionError:negative_prompt_embeds"}
       /\ pc = "loop" =>
            Len(loop.prompt_embeds)
                = (IF loop.cfg THEN 2 ELSE 1) * Len(args.masks.seq)

\* C7: a call with prompts and no masks fails with a validation error
\* before any computation.
C7_ZeroRegionsRejected ==
    (/\ pc # "idle"
     /\ ~NoPrompts(args)
     /\ NoMasks(args))
    => /\ pc = "failed"
       /\ error.kind \in ValidationErrors
       /\ did = {}

\* C8: under a mask quantization mode other than the three supported ones,
\* or an output type other than 'pil' and 'latent', a call with prompts and
\* masks fails with a validation error before any denoising.
C8_UnsupportedRejected ==
    (/\ pc # "idle"
     /\ ~NoPrompts(args)
     /\ ~NoMasks(args)
     /\ \/ mask_type \notin MaskTypes
        \/ args.output_type \notin {"pil", "latent"})
    => /\ pc = "failed"
       /\ error.kind \in ValidationErrors
       /\ "denoise" \notin did

\* C9: a call with output_type 'latent' that returns has not called the
\* decoder, and returns the latent the loop handed over, as it is.
C9_LatentIsRaw ==
    (/\ pc = "done"
     /\ args.np > 0
     /\ args.output_type = "latent")
    => /\ "decode" \notin did
       /\ result.kind = "latent"
       /\ result.data = handed[1]

\* C10: a call that passes num_inference_steps = None runs on the schedule
\* the constructor set up, whatever calls came before.
C10_NoneUsesDefaultSchedule ==
    (/\ pc \in {"loop", "done"}
     /\ args.np > 0
     /\ args.nis = NoneNum)
    => sched = ScheduleFields(DefaultTList, InitNumInferenceSteps)

\* C11: get_white_background calls the encoder only when no white latent is
\* cached or the requested image is higher or wider than the image the
\* cached latent was built for; a request for the size already cached is
\* served from the cache.
C11_WhiteCacheKeyedBySize ==
    probe.op = "get_white_background" =>
        (probe.encoded <=> \/ ~probe.before.has
                           \/ probe.height > probe.before.h
                           \/ probe.width > probe.before.w)

\* C12, as stated: every generation call with at least one prompt and one
\* mask that passes a background image and no background prompt calls the
\* captioner exactly once and puts the caption first in the prompt list.
C12_AlwaysCaptioned ==
    (/\ pc # "idle"
     /\ ~NoPrompts(args)
     /\ ~NoMasks(args)
     /\ args.bg # None
     /\ args.bgp = None)
    => /\ captions = 1
       /\ pc = "loop" => /\ Len(loop.prompts) = args.np + 1
                         /\ loop.prompts[1] = CaptionId
                         /\ Tail(loop.prompts) = Prompts(args.np)

\* C12, amended: the same for a call on a pipeline built with its captioner
\* whose counts pass the two assertions and whose masks leave some pixel
\* uncovered at some step.
C12_CaptionedBackground ==
    (/\ pc # "idle"
     /\ ~NoPrompts(args)
     /\ ~NoMasks(args)
     /\ args.bg # None
     /\ args.bgp = None
     /\ has_i2t
     /\ "mask" \in did
     /\ HasBackground(BgMasks(process_mask(mask_type, sched, args.masks.seq,
                                           DefaultMaskStrength,
                                           DefaultCoverAlpha).masks,
                              Len(sched.timesteps))))
    => /\ captions = 1
       /\ "caption" \in did
       /\ pc = "loop" => /\ Len(loop.prompts) = args.np + 1
                         /\ loop.prompts[1] = CaptionId
                         /\ Tail(loop.prompts) = Prompts(args.np)

\* A call with a background image, no background prompt and two regions on
\* the left half has entered the loop with the caption ahead of its prompts.
C12_Witness ==
    /\ pc = "loop"
    /\ args.bg # None
    /\ args.bgp = None
    /\ args.np = 2
    /\ captions = 1
    /\ loop.prompts = << CaptionId, 1, 2 >>

\* C13: in discrete mode, on every schedule prepare_flashflowmatch_schedule
\* accepts, a pixel of a region covered at step t is covered at step t+1.
C13_DiscreteCoverageGrows ==
    (probe.op = "process_mask" /\ mask_type = "discrete") =>
        \A r \in 1..Len(probe.out.masks) :
            \A t \in 1..(Len(sched.timesteps) - 1) :
                \A p \in Pix :
                    probe.out.masks[r][t][p] <= probe.out.masks[r][t + 1][p]

\* The cover alpha process_mask works with (lines 504-505).
ProbeAlpha ==
    IF probe.alpha = NoneNum THEN DefaultCoverAlpha ELSE probe.alpha

\* The claimed result of the decay: region i times alpha where a later region
\* has nonzero coverage, unchanged elsewhere and in the last region.
ProbeDecayed ==
    \A r \in 1..Len(probe.masks) :
        \A p \in Pix :
            probe.out.masks_blurred[r][p] =
                IF /\ r < Len(probe.masks)
                   /\ \E j \in (r + 1)..Len(probe.masks) : probe.masks[j][p] > 0
                THEN (probe.masks[r][p] * ProbeAlpha) \div Q
                ELSE probe.masks[r][p]

\* C19 as stated: for every alpha in [0, 1], alpha = 0 included, the masks
\* process_mask works with are the decayed masks.
C19_DecayForEveryAlpha == (probe.op = "process_mask") => ProbeDecayed

\* C19: for every alpha in (0, 1] region i's value is multiplied by alpha at
\* the pixels where a later region has nonzero coverage, other pixels and the
\* last region are unchanged; with alpha = 0 no mask is changed.
C19_DecayForPositiveAlpha ==
    (probe.op = "process_mask") =>
        IF ProbeAlpha > 0 THEN ProbeDecayed
        ELSE probe.out.masks_blurred = probe.masks

C19_Witness ==
    /\ probe.op = "process_mask"
    /\ ProbeAlpha > 0
    /\ ProbeAlpha < Q
    /\ \E p \in Pix :
          /\ probe.masks[1][p] > 0
          /\ probe.out.masks_blurred[1][p] < probe.masks[1][p]

\* The fields all come from the index list tl on a timeline of n steps.
FromConfig(sch, tl, n) ==
    /\ InTimeline(n, tl)
    /\ Len(sch.timesteps) = Len(tl)
    /\ Len(sch.sigmas) = Len(tl)
    /\ Len(sch.noise_lvs) = Len(tl)
    /\ \A j \in 1..Len(tl) :
          /\ sch.timesteps[j] = RefTimestep(n, Wrap(n, tl[j]))
          /\ sch.sigmas[j] = RefSigma(n, Wrap(n, tl[j]))
          /\ sch.noise_lvs[j] = NoiseLv(RefSigma(n, Wrap(n, tl[j])))

\* C18: after any sequence of prepare_flashflowmatch_schedule calls, failing
\* ones included, the five schedule fields have one length, come from one
\* (t_index_list, num_inference_steps) pair, and the two *_next fields are
\* the fields shifted left by one with a final 0; a failing call leaves all
\* five as they were.
C18_FieldsConsistent ==
    /\ Len(sched.sigmas_next) = Len(sched.sigmas)
    /\ Len(sched.next_noise_lvs) = Len(sched.sigmas)
    /\ \A j \in 1..Len(sched.sigmas) :
          /\ sched.sigmas_next[j] =
                IF j < Len(sched.sigmas) THEN sched.sigmas[j + 1] ELSE 0
          /\ sched.next_noise_lvs[j] =
                IF j < Len(sched.sigmas) THEN sched.noise_lvs[j + 1] ELSE 0
    /\ \E tl \in (TListArgs \ {NoList}) \cup {DefaultTList} :
          \E n \in (StepsArgs \ {NoneNum}) \cup {DefaultNumInferenceSteps} :
              FromConfig(sched, tl, n)
    /\ (probe.op = "prepare_flashflowmatch_schedule" /\ probe.err # None) =>
          sched = probe.before

\* A call that failed on a pipeline whose schedule an earlier call had
\* already replaced.
C18_Witness ==
    /\ probe.op = "prepare_flashflowmatch_schedule"
    /\ probe.err = "IndexError"
    /\ Len(sched.sigmas) # Len(DefaultTList)
    /\ Len(probe.t_index_list) # Len(sched.sigmas)

\* Lines 1018-1071 on the whole canvas, with no views, no slicing and a
\* weight of one: what a step adds to the zeroed accumulators when nothing
\* is tiled.
Untiled(L, sch, idx, lat) ==
    TileInput(L, sch, idx, NPix, [p \in Pix |-> Q],
              Tup([k \in 1..Len(L.fg_masks) |-> L.fg_masks[k][idx + 1]],
                  Len(L.fg_masks)),
              lat,
              BootBackground(NPix, MixRatio(L, idx),
                  scheduler_add_noise(sch.sigmas, L.white, L.noise, idx, L.noise),
                  IF L.has_background THEN L.noise_bg_latents[idx + 1] ELSE lat))

SameAsUntiled(e, u) ==
    /\ u.err = None
    /\ \A p \in Pix : e.value[p] = u.dv[p] /\ e.count_all[p] = u.dc[p]

\* C15: with the canvas within tile_size there is exactly one view, the
\* whole canvas, its tile weight is 1 at every pixel, and the value and
\* weight every step accumulates are those of the step run on the whole
\* canvas with no tiling.
C15_SingleTile ==
    /\ Len(Views) = 1
    /\ Len(TileMasks) = 1
    /\ Views[1] = [lo |-> 1, hi |-> NPix]
    /\ \A p \in Pix : TileMasks[1][p] = Q
    /\ \A k \in 1..Len(trace) :
          SameAsUntiled(trace[k], Untiled(loop, sched, trace[k].i, trace[k].in))

\* A call of two regions has run a bootstrap step and a later step.
C15_Witness ==
    /\ Len(trace) >= 2
    /\ loop.num_masks = 2
    /\ loop.bootstrap_steps >= 1
    /\ \E p \in Pix : trace[2].count_all[p] > 0

\* The embeddings of the call's negative prompts, blended with the
\* background's as lines 914-951 blend them.
UncondEmbeds(L) ==
    IF L.has_background
    THEN Lerp(<< Emb(L.negative_prompts[1]) >>,
              EncodePrompts(Tail(L.negative_prompts)),
              [k \in 1..(Len(L.negative_prompts) - 1) |-> DefaultPromptStrength])
    ELSE EncodePrompts(L.negative_prompts)

\* The transformer's prediction for entry b of a batch under embedding e.
PredOf(latIn, b, t, e) ==
    Tup([x \in 1..Len(latIn[b]) |-> Denoise(SumSeq(latIn[b]), x, t, e)],
        Len(latIn[b]))

C20_MergeGuarded ==
    \A k \in 1..Len(trace) :
        \A p \in Pix :
            /\ trace[k].count_all[p] >= 0
            /\ IF trace[k].count_all[p] > 0
               THEN trace[k].merged[p] =
                        trace[k].value[p] \div trace[k].count_all[p]
               ELSE trace[k].value[p] = 0 /\ trace[k].merged[p] = 0

\* A step has merged a canvas with a pixel of weight 0 beside a pixel of
\* positive weight and nonzero value.
C20_Witness ==
    \E k \in 1..Len(trace) :
        /\ \E p \in Pix : trace[k].count_all[p] = 0
        /\ \E p \in Pix : trace[k].count_all[p] > 0 /\ trace[k].merged[p] # 0

\* A plain run's step: the transformer and scheduler_step on the whole
\* canvas, with no mask, no accumulation and no bootstrap.
Plain(L, sch, idx, lat) ==
    scheduler_step(sch.sigmas,
                   Predict(L, << Tup(lat, NPix) >>, sch.timesteps[idx + 1], NPix)[1],
                   idx, Tup(lat, NPix))

\* C17: for a single region whose mask covers the whole canvas, with
\* strength 1, std 0 and no background, the merged latent of every step is
\* that of the plain step, the default bootstrap_steps = 1 included.
C17_FullCoverIsPlain ==
    (/\ pc = "loop"
     /\ args.masks.seq = << Ones >>
     /\ loop.num_masks = 1
     /\ Len(loop.fg_masks) = 1
     /\ ~loop.has_background) =>
        \A k \in 1..Len(trace) :
            \A p \in Pix :
                trace[k].merged[p] = Plain(loop, sched, trace[k].i, trace[k].in)[p]

\* C14: with the cover decay switched off (alpha = 0), listing the regions
\* (prompt, negative prompt, mask) in another order leaves the merged latent
\* of every step and the returned image unchanged, for the same denoiser and
\* the same noise.
C14_OrderInvariant ==
    (probe.op = "permuted") =>
        /\ probe.first.err = probe.second.err
        /\ probe.first.merged = probe.second.merged
        /\ probe.first.out = probe.second.out

\* Two regions with different masks that overlap, run to the end in both
\* orders.
C14_Witness ==
    /\ probe.op = "permuted"
    /\ probe.a.np = 2
    /\ probe.a.masks.seq = << Left, Ones >>
    /\ probe.first.err = None
    /\ Len(probe.first.merged) = Len(sched.timesteps)
    /\ probe.first.merged[1] # Zeros

\* C24: over any sequence of get_white_background requests the stored white
\* latent never gets smaller in height or in width.
C24_WhiteCacheGrowOnly ==
    probe.op = "get_white_background" =>
        /\ white.has
        /\ white.h >= probe.before.h
        /\ white.w >= probe.before.w

\* C25: prepare_flashflowmatch_schedule(None, None) on a pipeline built with
\* the default arguments succeeds and leaves the timesteps and sigmas the
\* constructor set.
C25_NoneNoneIsDefault ==
    (/\ probe.op = "prepare_flashflowmatch_schedule"
     /\ probe.t_index_list = NoList
     /\ probe.num_inference_steps = NoneNum) =>
        /\ probe.err = None
        /\ sched.timesteps =
              ScheduleFields(DefaultTList, InitNumInferenceSteps).timesteps
        /\ sched.sigmas =
              ScheduleFields(DefaultTList, InitNumInferenceSteps).sigmas

\* C27: at every denoiser call of the loop the number of latents in the
\* batch, the number of region masks and the number of conditional prompt
\* embeddings are equal, in every background configuration.
C27_BatchSizesAgree ==
    (pc = "loop") =>
        /\ loop.num_masks = Len(loop.fg_masks)
        /\ Len(loop.prompt_embeds) =
              (IF loop.cfg THEN 2 * loop.num_masks ELSE loop.num_masks)

\* C22: with a known background latent, B has T + 1 entries, entry k < T
\* the background noised to step k and entry T the background itself; after
\* the merge of step i the latent is (1 - b) * merged + b * B[i + 1] with
\* b = clip(1 - weight, 0, 1), i + 1 being an index of B; after the last
\* step a pixel of weight 0 holds the background latent.  (B is one-based
\* here; the blend is stated of the step executed last, which every executed
\* step is in the state it leads to.)
C22_BackgroundBlend ==
    (pc = "loop" /\ loop.has_background) =>
        /\ Len(loop.noise_bg_latents) = Len(sched.timesteps) + 1
        /\ \A k \in 1..Len(sched.timesteps) : \A p \in Pix :
              loop.noise_bg_latents[k][p] =
                  ((Q - sched.sigmas[k]) * encode_imgs(loop.background)[p]) \div Q
                  + (sched.sigmas[k] * loop.noise[p]) \div Q
        /\ loop.noise_bg_latents[Len(sched.timesteps) + 1] =
              encode_imgs(loop.background)
        /\ \A k \in {Len(trace)} \ {0} :
              /\ trace[k].i + 2 \in 1..Len(loop.noise_bg_latents)
              /\ \A p \in Pix :
                    /\ trace[k].blended[p] =
                          ((Q - Clip(Q - trace[k].count_all[p], 0, Q))
                              * trace[k].merged[p]) \div Q
                          + (Clip(Q - trace[k].count_all[p], 0, Q)
                              * loop.noise_bg_latents[trace[k].i + 2][p]) \div Q
                    /\ (trace[k].i = Len(sched.timesteps) - 1
                        /\ trace[k].count_all[p] = 0) =>
                            trace[k].out[p] = encode_imgs(loop.background)[p]

\* The last step of a call with a background image has left a pixel with
\* no weight.
C22_Witness ==
    /\ pc = "loop"
    /\ loop.has_background
    /\ args.bg # None
    /\ Len(trace) = Len(sched.timesteps)
    /\ Len(trace) >= 2
    /\ \E p \in Pix : trace[Len(trace)].count_all[p] = 0

\* The step e accumulated what its own tiles add to zero, own.
OwnContributions(e, own) ==
    /\ own.err = None
    /\ e.value = own.value
    /\ e.count_all = own.count_all
    /\ e.merged = Merge(own.value, own.count_all)

\* C21: the tile loop of every executed step starts from accumulators that
\* are zero over the whole canvas, and what the step accumulates is the sum
\* of its own tiles' contributions: nothing of the step before is in it.
\* (Stated of the step executed last: trace only grows, so every executed
\* step is the last one of the state it leads to.)
C21_AccumulatorsReset ==
    Len(trace) > 0 =>
        /\ trace[Len(trace)].acc0.value = Zeros
        /\ trace[Len(trace)].acc0.count_all = Zeros
        /\ OwnContributions(trace[Len(trace)],
                            TileLoopOver(loop, sched, trace[Len(trace)].i,
                                         trace[Len(trace)].in,
                                         Views, TileMasks, Len(Views),
                                         [err |-> None, value |-> [p \in Pix |-> 0],
                                          count_all |-> [p \in Pix |-> 0]]))

\* A second step has run on accumulators the first step left nonzero.
C21_Witness ==
    /\ Len(trace) >= 2
    /\ \E p \in Pix : trace[1].value[p] # 0 /\ trace[1].count_all[p] > 0

\* bootstrap_steps and boostrap_mix_steps of the running call (lines
\* 857-860).
BootstrapStepsOf(a) == IF a.boot = NoneNum THEN DefaultBootstrapSteps ELSE a.boot
MixStepsOf(a) == IF a.mix = NoneNum THEN DefaultBootstrapMixSteps ELSE a.mix

\* The batch the transformer receives at step e.i when the bootstrap
\* background is mixed with the given ratio.
InputWithRatio(e, ratio) ==
    ModelInput(loop, e.i, NPix, ViewMasks(loop, e.i, 1, NPix), e.in,
               BootBackground(NPix, ratio,
                   scheduler_add_noise(sched.sigmas, loop.white, loop.noise,
                                       e.i, loop.noise),
                   IF loop.has_background THEN loop.noise_bg_latents[e.i + 1]
                   ELSE e.in))

\* C23: the bootstrap stage runs at step i exactly when i < bootstrap_steps;
\* at such a step the batch handed to the transformer is composited on the
\* mix of white and background with ratio clip(boostrap_mix_steps - i, 0, 1),
\* which for boostrap_mix_steps = 2.3 is 1 at steps 0 and 1, 0.3 at step 2
\* and 0 from step 3 on; at any other step the batch is the plain tile.
C23_BootstrapGate ==
    \A k \in 1..Len(trace) :
        /\ trace[k].boot = (trace[k].i < BootstrapStepsOf(args))
        /\ trace[k].i < BootstrapStepsOf(args) =>
              /\ trace[k].mix_ratio = Clip(MixStepsOf(args) - trace[k].i * Q, 0, Q)
              /\ trace[k].model_in[1] =
                    InputWithRatio(trace[k],
                                   Clip(MixStepsOf(args) - trace[k].i * Q, 0, Q))
              /\ args.mix = MixSteps23 =>
                    trace[k].mix_ratio =
                        IF trace[k].i \in {0, 1} THEN Q
                        ELSE IF trace[k].i = 2 THEN (3 * Q) \div 10
                        ELSE 0
        /\ trace[k].i >= BootstrapStepsOf(args) =>
              trace[k].model_in[1] =
                  Tup([r \in 1..loop.num_masks |-> trace[k].in], loop.num_masks)

\* A call with boostrap_mix_steps = 2.3 has run its fifth step: four
\* bootstrap steps with ratios 1, 1, 0.3 and 0, and one plain step.
C23_Witness ==
    /\ Len(trace) = 5
    /\ args.mix = MixSteps23
    /\ args.boot = 4
    /\ trace[3].boot /\ trace[3].mix_ratio = (3 * Q) \div 10
    /\ trace[4].boot /\ trace[4].mix_ratio = 0
    /\ ~trace[5].boot

\* The tile loop of the step in hand run as the code runs it: the views in
\* the order listed, each iteration whole.
InOrder ==
    TileLoopOver(probe.loop, sched, probe.i, probe.latent, probe.views,
                 probe.tile_masks, Len(probe.views),
                 [err |-> None, value |-> [p \in PanoPix |-> 0],
                  count_all |-> [p \in PanoPix |-> 0]])

TileLoopOver_Done ==
    /\ probe.op = "tile_loop"
    /\ \A j \in DOMAIN probe.at : probe.at[j] = "done"

\* C26: when the iterations of the tile loop of a step have all run, in
\* whatever order and however interleaved, the accumulated value and weight,
\* and so the merged latent, are those of the loop run in the listed order;
\* and the loop raises in some order only if it raises in the listed order.
C26_TileOrderIrrelevant ==
    /\ TileLoopOver_Done =>
          /\ InOrder.err = None
          /\ probe.value = InOrder.value
          /\ probe.count_all = InOrder.count_all
    /\ (probe.op = "tile_loop" /\ probe.err # None) => InOrder.err # None

\* The loop over two overlapping tiles has run with the second tile first,
\* and both tiles added something to a pixel they share.
C26_Witness ==
    /\ TileLoopOver_Done
    /\ probe.order = <<2, 1>>
    /\ probe.views[1].hi >= probe.views[2].lo
    /\ probe.tile[1].dv[probe.views[2].lo - probe.views[1].lo + 1] # 0
    /\ probe.tile[2].dv[1] # 0
    /\ probe.tile[1].dv # probe.tile[2].dv

====
